---- MODULE Spec2Model ----
(***************************************************************************)
(* PortfolioPro: the holdings-snapshot pipeline of src/src/user.py and the *)
(* prompt formatter of src/src/localInsights.py.                           *)
(*                                                                         *)
(* Python values are tagged records, so that a mapping, a list, a number,  *)
(* a string, None and a raised exception are all distinguishable:          *)
(*   [t |-> "null"]              None                                      *)
(*   [t |-> "num",  n |-> i]     a number (integers stand for the floats)  *)
(*   [t |-> "str",  s |-> x]     a string                                  *)
(*   [t |-> "map",  m |-> f]     a dict with string keys                   *)
(*   [t |-> "list", l |-> q]     a list                                    *)
(*   [t |-> "bool", b |-> x]     True / False                              *)
(*   [t |-> "iso",  at |-> i]    datetime.isoformat() of clock reading i   *)
(*   [t |-> "raise"]             an exception escaped the expression       *)
(***************************************************************************)
EXTENDS Integers, Sequences, FiniteSets, TLC

VARIABLES brokerage_accounts, holdings, call, ret, input, lastPulled, seen

vars == <<brokerage_accounts, holdings, call, ret, input, lastPulled, seen>>

(* ------------------------------ bounds -------------------------------- *)

\* Readings of datetime.now() are drawn from 0..MaxTime.
MaxTime == 1

\* A rendered payload holds at most MaxPositions positions, each of
\* 0..MaxUnits units.
MaxPositions == 2

MaxUnits == 1

(* --------------------------- Python values ---------------------------- *)

Null == [t |-> "null"]

Raise == [t |-> "raise"]

Num(i) == [t |-> "num", n |-> i]

Str(x) == [t |-> "str", s |-> x]

Map(f) == [t |-> "map", m |-> f]

List(q) == [t |-> "list", l |-> q]

Bool(x) == [t |-> "bool", b |-> x]

Iso(i) == [t |-> "iso", at |-> i]

EmptyMap == Map(<<>>)

EmptyList == List(<<>>)

\* bool(v): None, 0, "", {} and [] are false.
Truthy(v) ==
  CASE v.t = "null" -> FALSE
    [] v.t = "raise" -> FALSE
    [] v.t = "num" -> v.n # 0
    [] v.t = "str" -> v.s # ""
    [] v.t = "map" -> DOMAIN v.m # {}
    [] v.t = "list" -> Len(v.l) > 0
    [] v.t = "bool" -> v.b
    [] OTHER -> TRUE

\* d[k] written where d.get(k, default) is meant: KeyError on an absent key.
get_KeyError(d, k, default) ==
  IF d.t # "map" THEN Raise
  ELSE IF k \in DOMAIN d.m THEN d.m[k] ELSE Raise

\* d.get(k, default): AttributeError unless d is a dict; an exception raised
\* while d was computed propagates.
get(d, k, default) ==
  IF d.t # "map" THEN Raise
  ELSE IF k \in DOMAIN d.m THEN d.m[k] ELSE default

\* d[k] on a dict: KeyError when k is absent; TypeError on None and numbers.
Subscript(d, k) ==
  IF d.t = "map" /\ k \in DOMAIN d.m THEN d.m[k] ELSE Raise

\* v[0]: the first element of a non-empty list; a dict with string keys has
\* no key 0 (KeyError), None and numbers are not subscriptable (TypeError),
\* and "abc"[0] is a one-character string.
Index0(v) ==
  CASE v.t = "list" /\ Len(v.l) > 0 -> v.l[1]
    [] v.t = "str" /\ v.s # "" -> Str("c")
    [] OTHER -> Raise

RECURSIVE KeySeq(_)
KeySeq(K) ==
  IF K = {} THEN <<>>
  ELSE LET k == CHOOSE x \in K : TRUE IN <<Str(k)>> \o KeySeq(K \ {k})

\* "for x in v": a list yields its elements, a dict its keys (strings), the
\* empty string nothing; None and numbers are not iterable (TypeError).
Iterable(v) == v.t \in {"list", "map"} \/ (v.t = "str" /\ v.s = "")

Items(v) ==
  CASE v.t = "list" -> v.l
    [] v.t = "map" -> KeySeq(DOMAIN v.m)
    [] OTHER -> <<>>

RECURSIVE HasRaise(_)
HasRaise(v) ==
  CASE v.t = "raise" -> TRUE
    [] v.t = "map" -> \E k \in DOMAIN v.m : HasRaise(v.m[k])
    [] v.t = "list" -> \E i \in 1..Len(v.l) : HasRaise(v.l[i])
    [] OTHER -> FALSE

\* An exception raised anywhere while a value is built aborts the function.
Propagate(v) == IF HasRaise(v) THEN Raise ELSE v

(* --------------------- User._create_holdings_snapshot ------------------ *)

position_data(position) ==
  LET sym == get(position, "symbol", EmptyMap)
      symsym == get(sym, "symbol", EmptyMap)
  IN Map([symbol |-> get(symsym, "symbol", Null),
          description |-> get(sym, "description", Null),
          units |-> get(position, "units", Null),
          fractional_units |-> get(position, "fractional_units", Null),
          current_price |-> get(position, "price", Null),
          average_purchase_price |-> get(position, "average_purchase_price", Null),
          open_pnl |-> get(position, "open_pnl", Null),
          exchange |-> get(get(symsym, "exchange", EmptyMap), "code", Null),
          asset_type |-> get(get(symsym, "type", EmptyMap), "description", Null),
          currency |-> get(get(symsym, "currency", EmptyMap), "code", Null)])

option_data(option) ==
  LET osym == get(get(option, "symbol", EmptyMap), "option_symbol", EmptyMap)
  IN Map([underlying_symbol |->
            get(get(osym, "underlying_symbol", EmptyMap), "symbol", Null),
          option_ticker |-> get(osym, "ticker", Null),
          option_type |-> get(osym, "option_type", Null),
          strike_price |-> get(osym, "strike_price", Null),
          expiration_date |-> get(osym, "expiration_date", Null),
          units |-> get(option, "units", Null),
          current_price |-> get(option, "price", Null),
          average_purchase_price |-> get(option, "average_purchase_price", Null),
          currency |-> get(get(option, "currency", EmptyMap), "code", Null)])

order_data(order) ==
  LET base == [brokerage_order_id |-> get(order, "brokerage_order_id", Null),
               symbol |-> get(get(order, "universal_symbol", EmptyMap), "symbol", Null),
               action |-> get(order, "action", Null),
               total_quantity |-> get(order, "total_quantity", Null),
               filled_quantity |-> get(order, "filled_quantity", Null),
               execution_price |-> get(order, "execution_price", Null),
               order_type |-> get(order, "order_type", Null),
               limit_price |-> get(order, "limit_price", Null),
               stop_price |-> get(order, "stop_price", Null),
               status |-> get(order, "status", Null),
               time_placed |-> get(order, "time_placed", Null),
               time_executed |-> get(order, "time_executed", Null),
               time_updated |-> get(order, "time_updated", Null),
               expiry_date |-> get(order, "expiry_date", Null)]
      osym == get(order, "option_symbol", EmptyMap)
      extra == [option_symbol |->
                  Map([ticker |-> get(osym, "ticker", Null),
                       option_type |-> get(osym, "option_type", Null),
                       strike_price |-> get(osym, "strike_price", Null),
                       expiration_date |-> get(osym, "expiration_date", Null)])]
  IN IF get(order, "option_symbol", Null).t = "raise" THEN Raise
     ELSE IF Truthy(get(order, "option_symbol", Null)) THEN Map(extra @@ base)
     ELSE Map(base)

\* One "for x in holdings_data.get(key, [])" loop of the adapter, appending
\* the reshaped element to a list; key is positions, option_positions or
\* orders.
Reshape(key, x) ==
  CASE key = "positions" -> position_data(x)
    [] key = "option_positions" -> option_data(x)
    [] OTHER -> order_data(x)

Collect(holdings_data, key) ==
  LET src == get(holdings_data, key, EmptyList)
      xs == Items(src)
  IN IF src.t = "raise" \/ ~Iterable(src) THEN Raise
     ELSE List([i \in 1..Len(xs) |-> Reshape(key, xs[i])])

\* balances[0].get(field) if balances is truthy, else None.
first_balance(holdings_data, field) ==
  IF Truthy(get(holdings_data, "balances", Null))
  THEN get(Index0(get(holdings_data, "balances", List(<<EmptyMap>>))), field, Null)
  ELSE Null

_create_holdings_snapshot(holdings_data, now) ==
  LET account == get(holdings_data, "account", EmptyMap)
      total == get(get(account, "balance", EmptyMap), "total", EmptyMap)
      total_value == get(holdings_data, "total_value", EmptyMap)
  IN Propagate(Map(
       [metadata |-> Map([account_id |-> get(account, "id", Null),
                          account_name |-> get(account, "name", Null),
                          pulled_at |-> Iso(now),
                          institution_name |-> get(account, "institution_name", Null)]),
        balances |-> Map([total_balance |-> get(total, "amount", Null),
                          total_balance_currency |-> get(total, "currency", Null),
                          cash_available |-> first_balance(holdings_data, "cash"),
                          buying_power |-> first_balance(holdings_data, "buying_power"),
                          total_portfolio_value |-> get(total_value, "value", Null),
                          total_portfolio_currency |-> get(total_value, "currency", Null)]),
        positions |-> Collect(holdings_data, "positions"),
        option_positions |-> Collect(holdings_data, "option_positions"),
        orders |-> Collect(holdings_data, "orders")]))

(* ---------------------- User.small_holdings_snapshot ------------------- *)

\* small_position with "or 0" on the units.
small_position_zero_units(position) ==
  Map([symbol |-> get(position, "symbol", Null),
       units |-> IF get(position, "units", Null) = Null THEN Num(0)
                 ELSE get(position, "units", Null),
       current_price |-> get(position, "current_price", Null),
       open_pnl |-> get(position, "open_pnl", Null)])

small_position(position) ==
  Map([symbol |-> get(position, "symbol", Null),
       units |-> get(position, "units", Null),
       current_price |-> get(position, "current_price", Null),
       open_pnl |-> get(position, "open_pnl", Null)])

small_positions(holdings_data) ==
  LET src == get(holdings_data, "positions", EmptyList)
      xs == Items(src)
  IN IF src.t = "raise" \/ ~Iterable(src) THEN Raise
     ELSE List([i \in 1..Len(xs) |-> small_position(xs[i])])

\* The reduction of one stored Full Snapshot.
reduce_snapshot(holdings_data) ==
  LET metadata == get(holdings_data, "metadata", EmptyMap)
      balances == get(holdings_data, "balances", EmptyMap)
  IN Propagate(Map(
       [snapshot_date |-> get(metadata, "pulled_at", Null),
        account |-> get(metadata, "account_name", Null),
        balances |-> Map([total_balance |-> get(balances, "total_balance", Null),
                          cash_available |-> get(balances, "cash_available", Null),
                          buying_power |-> get(balances, "buying_power", Null),
                          total_portfolio_value |->
                            get(balances, "total_portfolio_value", Null)]),
        positions |-> small_positions(holdings_data)]))

\* small_holdings_snapshot without the "not in self.holdings" guard: KeyError.
small_holdings_snapshot_unguarded(account_name) ==
  IF account_name \notin DOMAIN holdings THEN Raise
  ELSE reduce_snapshot(holdings[account_name])

small_holdings_snapshot(account_name) ==
  IF account_name \notin DOMAIN holdings THEN EmptyMap
  ELSE reduce_snapshot(holdings[account_name])

(* ------------------------------ rendering ------------------------------ *)

\* One line of a rendering: fixed text, the sign prefix ("+" or ""), the
\* interpolated value and the up/down marker of the Report variant.
NoValue == [t |-> "novalue"]

Line(label, sign, val, mark) ==
  [label |-> label, sign |-> sign, val |-> val, mark |-> mark]

Plain(label) == Line(label, "", NoValue, "")

Text(lines) == [t |-> "text", lines |-> lines]

\* f"{v}": str(v).
StrOf(v) ==
  CASE v.t = "null" -> Str("None")
    [] v.t = "num" -> [t |-> "digits", n |-> v.n]
    [] v.t \in {"str", "iso"} -> v
    [] OTHER -> [t |-> "repr", of |-> v]

\* The number of hundredths (or ten-thousandths) a format spec prints.
Scale(spec) == IF spec = ",.4f" THEN 10000 ELSE 100

\* f"{v:,.2f}", f"{v:.2f}", f"{v:,.4f}": the decimal digits printed, as a
\* count of the last printed place; TypeError on None, ValueError on a string.
Fmt(v, spec) ==
  IF v.t = "num" THEN [t |-> "fmt", spec |-> spec, k |-> v.n * Scale(spec)]
  ELSE Raise

\* Round to nearest of a / b for b > 0.
RoundDiv(a, b) == (2 * a + b) \div (2 * b)

\* f"{(total_pnl / total_position_value) * 100:.2f}".
FmtPercent(total_pnl, total_position_value) ==
  [t |-> "fmt", spec |-> ".2f",
   k |-> RoundDiv(total_pnl.n * 100 * Scale(".2f"), total_position_value.n)]

\* a * b and a + b on numbers; None in either operand is a TypeError.
Mul(a, b) == IF a.t = "num" /\ b.t = "num" THEN Num(a.n * b.n) ELSE Raise

Add(a, b) == IF a.t = "num" /\ b.t = "num" THEN Num(a.n + b.n) ELSE Raise

\* '+' if x >= 0 else ''.
Sign(x) == IF x.t = "num" /\ x.n >= 0 THEN "+" ELSE ""

position_value(position) ==
  Mul(Subscript(position, "units"), Subscript(position, "current_price"))

RECURSIVE total_position_value(_)
total_position_value(positions) ==
  IF Len(positions) = 0 THEN Num(0)
  ELSE Add(total_position_value(SubSeq(positions, 1, Len(positions) - 1)),
           position_value(positions[Len(positions)]))

RECURSIVE total_pnl(_)
total_pnl(positions) ==
  IF Len(positions) = 0 THEN Num(0)
  ELSE Add(total_pnl(SubSeq(positions, 1, Len(positions) - 1)),
           Subscript(positions[Len(positions)], "open_pnl"))

RECURSIVE Flatten(_)
Flatten(seqs) ==
  IF Len(seqs) = 0 THEN <<>> ELSE Head(seqs) \o Flatten(Tail(seqs))

\* A rendering is aborted by the first exception raised while a line is built.
Render(lines) ==
  IF \E i \in 1..Len(lines) : lines[i].val.t = "raise" THEN Raise
  ELSE Text(lines)

(* -------------------- User.format_portfolio_summary -------------------- *)

\* The green / red circle of the Report variant.
pnl_indicator(open_pnl) ==
  IF open_pnl.t = "num" /\ open_pnl.n >= 0 THEN "green" ELSE "red"

report_position(position) ==
  LET open_pnl == Subscript(position, "open_pnl")
  IN << Line("{symbol}:", "", StrOf(Subscript(position, "symbol")), ""),
        Line("  Units: ", "", Fmt(Subscript(position, "units"), ",.4f"), ""),
        Line("  Current Price: $", "",
             Fmt(Subscript(position, "current_price"), ".2f"), ""),
        Line("  Position Value: $", "", Fmt(position_value(position), ",.2f"), ""),
        Line("  P&L: ", Sign(open_pnl), Fmt(open_pnl, ".2f"), pnl_indicator(open_pnl)),
        Plain("") >>

\* "if balances.get('total_portfolio_value') and total_position_value > 0".
report_shows_percentage(balances, tpv) ==
  /\ Truthy(get(balances, "total_portfolio_value", Null))
  /\ tpv.t = "num"
  /\ tpv.n > 0

report_positions(balances, positions) ==
  LET tpv == total_position_value(positions)
      pnl == total_pnl(positions)
  IN IF Len(positions) > 0
     THEN << Plain("POSITIONS"), Plain("--------------------") >>
          \o Flatten([i \in 1..Len(positions) |-> report_position(positions[i])])
          \o << Plain("PORTFOLIO SUMMARY"), Plain("--------------------"),
                Line("Total Positions Value: $", "", Fmt(tpv, ",.2f"), ""),
                Line("Total P&L: ", Sign(pnl), Fmt(pnl, ".2f"), "") >>
          \o (IF pnl.t = "num" /\ report_shows_percentage(balances, tpv)
              THEN << Line("P&L %: ", Sign(pnl), FmtPercent(pnl, tpv), "") >>
              ELSE << >>)
     ELSE << Plain("POSITIONS"), Plain("--------------------"),
             Plain("No positions found") >>

report(snapshot) ==
  LET balances == Subscript(snapshot, "balances")
      positions == Subscript(snapshot, "positions")
  IN IF balances.t = "raise" \/ positions.t = "raise" THEN Raise
     ELSE Render(
       << Plain("=================================================="),
          Line("PORTFOLIO SUMMARY - ", "", StrOf(Subscript(snapshot, "account")), ""),
          Plain("=================================================="),
          Line("Snapshot Date: ", "", StrOf(Subscript(snapshot, "snapshot_date")), ""),
          Plain(""),
          Plain("ACCOUNT BALANCES"),
          Plain("--------------------"),
          Line("Total Balance: $", "",
               Fmt(Subscript(balances, "total_balance"), ",.2f"), ""),
          Line("Cash Available: $", "",
               Fmt(Subscript(balances, "cash_available"), ",.2f"), ""),
          Line("Buying Power: $", "",
               Fmt(Subscript(balances, "buying_power"), ",.2f"), "") >>
       \o (IF Truthy(get(balances, "total_portfolio_value", Null))
           THEN << Line("Portfolio Value: $", "",
                        Fmt(Subscript(balances, "total_portfolio_value"), ",.2f"), "") >>
           ELSE << >>)
       \o << Plain("") >>
       \o report_positions(balances, Items(positions))
       \o << Plain(""), Plain("==================================================") >>)

format_portfolio_summary(account_name) ==
  LET snapshot == small_holdings_snapshot(account_name)
  IN IF snapshot.t = "raise" THEN Raise
     ELSE IF ~Truthy(snapshot)
     THEN Text(<< Line("No holdings data available for account: ", "",
                       Str(account_name), "") >>)
     ELSE report(snapshot)

(* ------------------ localInsights._format_snapshot_for_llm ------------- *)

prompt_position(position) ==
  LET units == get(position, "units", Num(0))
      current_price == get(position, "current_price", Num(0))
      open_pnl == get(position, "open_pnl", Num(0))
  IN << Line("  {symbol}:", "", StrOf(get(position, "symbol", Str("Unknown"))), ""),
        Line("    Units: ", "", Fmt(units, ",.4f"), ""),
        Line("    Current Price: $", "", Fmt(current_price, ".2f"), ""),
        Line("    Position Value: $", "", Fmt(Mul(units, current_price), ",.2f"), ""),
        Line("    P&L: ", Sign(open_pnl), Fmt(open_pnl, ".2f"), ""),
        Plain("") >>

\* The "total_position_value += position_value" and "total_pnl += open_pnl"
\* accumulators of the loop, left to right from 0.
RECURSIVE prompt_total_value(_)
prompt_total_value(positions) ==
  IF Len(positions) = 0 THEN Num(0)
  ELSE LET last == positions[Len(positions)]
       IN Add(prompt_total_value(SubSeq(positions, 1, Len(positions) - 1)),
              Mul(get(last, "units", Num(0)), get(last, "current_price", Num(0))))

RECURSIVE prompt_total_pnl(_)
prompt_total_pnl(positions) ==
  IF Len(positions) = 0 THEN Num(0)
  ELSE Add(prompt_total_pnl(SubSeq(positions, 1, Len(positions) - 1)),
           get(positions[Len(positions)], "open_pnl", Num(0)))

\* "if total_position_value > 0".
prompt_shows_percentage(tpv) == tpv.t = "num" /\ tpv.n > 0

prompt_positions(positions) ==
  LET tpv == prompt_total_value(positions)
      pnl == prompt_total_pnl(positions)
  IN IF Len(positions) > 0
     THEN << Plain("POSITIONS:") >>
          \o Flatten([i \in 1..Len(positions) |-> prompt_position(positions[i])])
          \o << Plain("PORTFOLIO SUMMARY:"),
                Line("  Total Positions Value: $", "", Fmt(tpv, ",.2f"), ""),
                Line("  Total P&L: ", Sign(pnl), Fmt(pnl, ".2f"), "") >>
          \o (IF pnl.t = "num" /\ prompt_shows_percentage(tpv)
              THEN << Line("  P&L %: ", Sign(pnl), FmtPercent(pnl, tpv), "") >>
              ELSE << >>)
     ELSE << Plain("POSITIONS: No positions found") >>

_format_snapshot_for_llm(snapshot) ==
  LET balances == get(snapshot, "balances", EmptyMap)
      positions == get(snapshot, "positions", EmptyList)
  IN IF snapshot.t = "raise" THEN Raise
     ELSE IF ~Truthy(snapshot)
     THEN Text(<< Plain("No portfolio data available for analysis.") >>)
     ELSE Render(
       << Plain("PORTFOLIO SNAPSHOT"),
          Line("Account: ", "", StrOf(get(snapshot, "account", Str("Unknown"))), ""),
          Line("Date: ", "", StrOf(get(snapshot, "snapshot_date", Str("Unknown"))), ""),
          Plain(""),
          Plain("ACCOUNT BALANCES:"),
          Line("  Total Balance: $", "",
               Fmt(get(balances, "total_balance", Num(0)), ",.2f"), ""),
          Line("  Cash Available: $", "",
               Fmt(get(balances, "cash_available", Num(0)), ",.2f"), ""),
          Line("  Buying Power: $", "",
               Fmt(get(balances, "buying_power", Num(0)), ",.2f"), "") >>
       \o (IF Truthy(get(balances, "total_portfolio_value", Null))
           THEN << Line("  Portfolio Value: $", "",
                        Fmt(get(balances, "total_portfolio_value", Null), ",.2f"), "") >>
           ELSE << >>)
       \o << Plain("") >>
       \o prompt_positions(Items(positions)))

(* --------------------------- the registry ------------------------------ *)

\* The account names a caller asks for: two the aggregator knows and one it
\* never lists.
CallNames == {"A", "B", "X"}

Times == 0..MaxTime

\* call: the operation last called, the name it was called for, and (for
\* small_holdings_snapshot) whether it had been called for that name since
\* the last pull.
Called(op, name, again) == [op |-> op, name |-> name, again |-> again]

NoCall == Called("init", "", FALSE)

\* One iteration of "for account in accounts.body":
\* self.brokerage_accounts[account["name"]] = account["id"].
RECURSIVE register(_, _)
register(accounts, body) ==
  IF Len(body) = 0 THEN [ok |-> TRUE, accounts |-> accounts]
  ELSE LET account == Head(body)
           id == Subscript(account, "id")
           name == Subscript(account, "name")
       \* (the names the aggregator sends are strings, when it sends them)
       IN IF id.t = "raise" \/ name.t # "str"
          THEN [ok |-> FALSE, accounts |-> accounts]
          ELSE register((name.s :> id) @@ accounts, Tail(body))

\* User.pull_connected_brokerage_accounts on the aggregator's response
\* (Raise: the call raised): the flag returned and the mapping left behind.
pull_connected_brokerage_accounts(response) ==
  IF response.t = "raise" \/ ~Iterable(response)
  THEN [ret |-> Bool(FALSE), accounts |-> brokerage_accounts]
  ELSE LET r == register(brokerage_accounts, Items(response))
       IN [ret |-> Bool(r.ok), accounts |-> r.accounts]

\* self.holdings.setdefault(account_name, snapshot): the first snapshot stays.
store_keep_first(h, account_name, snapshot) ==
  IF account_name \in DOMAIN h THEN h ELSE (account_name :> snapshot) @@ h

\* self.holdings[account_name] = snapshot.
store(h, account_name, snapshot) == (account_name :> snapshot) @@ h

\* User.pull_account_holdings with the lookup outside the try block.
pull_account_holdings_unguarded(account_name, response, now) ==
  LET snapshot == _create_holdings_snapshot(response, now)
  IN IF account_name \notin DOMAIN brokerage_accounts
     THEN [ret |-> Raise, holdings |-> holdings]
     ELSE IF snapshot.t = "raise"
     THEN [ret |-> Bool(FALSE), holdings |-> holdings]
     ELSE [ret |-> Bool(TRUE), holdings |-> store(holdings, account_name, snapshot)]

\* User.pull_account_holdings with self.holdings.pop(account_name, None) in the
\* except block: a failure forgets the snapshot stored for the name.
pull_account_holdings_pop(account_name, response, now) ==
  LET snapshot == _create_holdings_snapshot(response, now)
  IN IF account_name \notin DOMAIN brokerage_accounts \/ snapshot.t = "raise"
     THEN [ret |-> Bool(FALSE),
           holdings |-> [n \in DOMAIN holdings \ {account_name} |-> holdings[n]]]
     ELSE [ret |-> Bool(TRUE), holdings |-> store(holdings, account_name, snapshot)]

\* User.pull_account_holdings on the aggregator's response (Raise: the call
\* raised): every exception of the try block, the KeyError of an unregistered
\* name included, becomes False.
pull_account_holdings(account_name, response, now) ==
  LET snapshot == _create_holdings_snapshot(response, now)
  IN IF account_name \notin DOMAIN brokerage_accounts \/ snapshot.t = "raise"
     THEN [ret |-> Bool(FALSE), holdings |-> holdings]
     ELSE [ret |-> Bool(TRUE), holdings |-> store(holdings, account_name, snapshot)]

(* ------------------------------ actions -------------------------------- *)

PullConnectedBrokerageAccounts(response) ==
  LET r == pull_connected_brokerage_accounts(response)
  IN /\ brokerage_accounts' = r.accounts
     /\ ret' = r.ret
     /\ call' = Called("pull_connected_brokerage_accounts", "", FALSE)
     /\ input' = response
     /\ seen' = << >>
     /\ UNCHANGED <<holdings, lastPulled>>

\* lastPulled and seen are history variables: the snapshot each name's most
\* recent successful pull produced (and whether it replaced an earlier one),
\* and what small_holdings_snapshot returned since the last pull.
PullAccountHoldings(account_name, response, now) ==
  LET r == pull_account_holdings(account_name, response, now)
      made == _create_holdings_snapshot(response, now)
  IN /\ holdings' = r.holdings
     /\ ret' = r.ret
     /\ call' = Called("pull_account_holdings", account_name, FALSE)
     /\ input' = IF account_name \in DOMAIN brokerage_accounts THEN response ELSE NoValue
     /\ lastPulled' =
          IF r.ret = Bool(TRUE)
          THEN (account_name :>
                  [snapshot |-> made,
                   replaced |-> /\ account_name \in DOMAIN lastPulled
                                /\ lastPulled[account_name].snapshot # made])
               @@ lastPulled
          ELSE lastPulled
     /\ seen' = << >>
     /\ UNCHANGED brokerage_accounts

\* small_holdings_snapshot reading with self.holdings.pop(account_name).
SmallHoldingsSnapshot_pop(account_name) ==
  /\ ret' = small_holdings_snapshot(account_name)
  /\ call' = Called("small_holdings_snapshot", account_name, account_name \in DOMAIN seen)
  /\ input' = NoValue
  /\ seen' = (account_name :> small_holdings_snapshot(account_name)) @@ seen
  /\ holdings' = [n \in DOMAIN holdings \ {account_name} |-> holdings[n]]
  /\ UNCHANGED <<brokerage_accounts, lastPulled>>

\* One call of User.small_holdings_snapshot.
SmallHoldingsSnapshot(account_name) ==
  /\ ret' = small_holdings_snapshot(account_name)
  /\ call' = Called("small_holdings_snapshot", account_name, account_name \in DOMAIN seen)
  /\ input' = NoValue
  /\ seen' = (account_name :> small_holdings_snapshot(account_name)) @@ seen
  /\ UNCHANGED <<brokerage_accounts, holdings, lastPulled>>

FormatPortfolioSummary(account_name) ==
  /\ ret' = format_portfolio_summary(account_name)
  /\ call' = Called("format_portfolio_summary", account_name, FALSE)
  /\ input' = NoValue
  /\ UNCHANGED <<brokerage_accounts, holdings, lastPulled, seen>>

\* emailTLDR.py: _format_snapshot_for_llm(user.small_holdings_snapshot(name)).
FormatSnapshotForLLM(account_name) ==
  /\ ret' = _format_snapshot_for_llm(small_holdings_snapshot(account_name))
  /\ call' = Called("_format_snapshot_for_llm", account_name, FALSE)
  /\ input' = NoValue
  /\ UNCHANGED <<brokerage_accounts, holdings, lastPulled, seen>>

\* One application of the Raw Response Adapter to the payload in input.
CreateHoldingsSnapshot(now) ==
  /\ call = NoCall
  /\ ret' = _create_holdings_snapshot(input, now)
  /\ call' = Called("_create_holdings_snapshot", "", FALSE)
  /\ UNCHANGED <<brokerage_accounts, holdings, input, lastPulled, seen>>

(* ----------------------- aggregator responses -------------------------- *)

Account(name, id) == Map([name |-> Str(name), id |-> Str(id)])

\* What list_user_accounts gives: it raises, or its body is no list, an empty
\* list, the accounts, or a list whose second account has no name.
AccountListResponses ==
  { Raise, Null, EmptyList,
    List(<< Account("A", "id-A") >>),
    List(<< Account("A", "id-A"), Account("B", "id-B") >>),
    List(<< Account("B", "id-B"), Map([id |-> Str("id-C")]) >>) }

Symbol(ticker) ==
  Map([symbol |-> Map([symbol |-> Str(ticker),
                       exchange |-> Map([code |-> Str("XNAS")]),
                       type |-> Map([description |-> Str("Common Stock")]),
                       currency |-> Map([code |-> Str("USD")])]),
       description |-> Str("Apple Inc")])

Position(units, price, open_pnl) ==
  Map([symbol |-> Symbol("AAPL"), units |-> Num(units), price |-> Num(price),
       open_pnl |-> Num(open_pnl)])

OptionPosition ==
  Map([symbol |-> Map([option_symbol |->
                         Map([underlying_symbol |-> Map([symbol |-> Str("AAPL")]),
                              ticker |-> Str("AAPL-C")])]),
       units |-> Num(1),
       currency |-> Map([code |-> Str("USD")])])

Order ==
  Map([brokerage_order_id |-> Str("o-1"),
       universal_symbol |-> Map([symbol |-> Str("AAPL")]),
       action |-> Str("BUY"),
       option_symbol |-> Map([ticker |-> Str("AAPL-C")])])

AccountBlock ==
  Map([id |-> Str("id-A"), name |-> Str("A"), institution_name |-> Str("Robinhood"),
       balance |-> Map([total |-> Map([amount |-> Num(9), currency |-> Str("USD")])])])

BalancesBlock == List(<< Map([cash |-> Num(4), buying_power |-> Num(5)]) >>)

TotalValue(value) == Map([value |-> Num(value), currency |-> Str("USD")])

\* A payload with every block the adapter reads.
FullPayload ==
  Map([account |-> AccountBlock,
       balances |-> BalancesBlock,
       total_value |-> TotalValue(9),
       positions |-> List(<< Position(2, 3, 1) >>),
       option_positions |-> List(<< OptionPosition >>),
       orders |-> List(<< Order >>)])

\* The mapping v without the keys outside K.
Restrict(v, K) == Map([k \in DOMAIN v.m \cap K |-> v.m[k]])

\* What get_user_holdings gives in the registry specification: it raises,
\* its body is no mapping, a mapping whose account is null, the empty mapping,
\* or a payload with an account, balances, a total value and a position.
HoldingsResponses ==
  { Raise, Null, Map([account |-> Null]), EmptyMap,
    Restrict(FullPayload, {"account", "balances", "total_value", "positions"}) }

(* --- payloads for the renderings: balances, total value, positions --- *)

RECURSIVE SeqsUpTo(_, _)
SeqsUpTo(S, n) ==
  IF n = 0 THEN { << >> }
  ELSE LET shorter == SeqsUpTo(S, n - 1)
       IN shorter \cup { Append(q, x) : q \in { r \in shorter : Len(r) = n - 1 }, x \in S }

PositionChoices ==
  { Position(u, 3, pnl) : u \in 0..MaxUnits, pnl \in {-1, 2} }
  \cup { Map([symbol |-> Symbol("MSFT"), price |-> Num(3)]) }

RenderBases ==
  { FullPayload,
    Restrict(FullPayload, {"account", "balances", "option_positions", "orders"}),
    Restrict(FullPayload, {"account", "balances"}),
    Restrict(FullPayload, {"balances"}),
    EmptyMap }

RenderPayloads ==
  { Map(("positions" :> List(ps)) @@ tv @@ Restrict(base, DOMAIN base.m \ {"positions", "total_value"}).m) :
      ps \in SeqsUpTo(PositionChoices, MaxPositions),
      tv \in { << >>, [total_value |-> TotalValue(0)], [total_value |-> TotalValue(7)] },
      base \in RenderBases }

(* --- payloads for the adapter: missing keys, malformed nested values --- *)

\* Every value obtained from v by deleting any set of keys at any depth.
RECURSIVE Prune(_)
RECURSIVE PruneMap(_, _)
RECURSIVE PruneSeq(_)
Prune(v) ==
  CASE v.t = "map" -> { Map(g) : g \in PruneMap(v.m, DOMAIN v.m) }
    [] v.t = "list" -> { List(q) : q \in PruneSeq(v.l) }
    [] OTHER -> { v }

PruneMap(f, K) ==
  IF K = {} THEN { << >> }
  ELSE LET k == CHOOSE x \in K : TRUE
           rest == PruneMap(f, K \ {k})
       IN rest \cup { (k :> pv) @@ r : pv \in Prune(f[k]), r \in rest }

PruneSeq(q) ==
  IF Len(q) = 0 THEN { << >> }
  ELSE { << h >> \o r : h \in Prune(Head(q)), r \in PruneSeq(Tail(q)) }

\* Every value obtained from v by putting null, a number or a string in the
\* place of exactly one value nested in it.
NonMappings == { Null, Num(7), Str("x") }

RECURSIVE Corrupt(_)
Corrupt(v) ==
  CASE v.t = "map" ->
         { Map((k :> c) @@ v.m) : k \in DOMAIN v.m, c \in NonMappings }
         \cup UNION { { Map((k :> c) @@ v.m) : c \in Corrupt(v.m[k]) } : k \in DOMAIN v.m }
    [] v.t = "list" ->
         UNION { { List([v.l EXCEPT ![i] = c]) : c \in NonMappings \cup Corrupt(v.l[i]) } :
                 i \in 1..Len(v.l) }
    [] OTHER -> { }

\* FullPayload with one block replaced.
WithBlock(key, block) == Map((key :> block) @@ FullPayload.m)

\* Payloads that only miss keys: one block of FullPayload pruned at every
\* depth, any set of blocks absent, a slim payload pruned throughout, and
\* position lists of other lengths.
SlimPayload ==
  Map([account |-> Map([name |-> Str("A"),
                        balance |-> Map([total |-> Map([amount |-> Num(9)])])]),
       balances |-> List(<< Map([cash |-> Num(4)]) >>),
       total_value |-> Map([value |-> Num(9)]),
       positions |-> List(<< Map([symbol |-> Map([symbol |-> Map([symbol |-> Str("AAPL")])]),
                                  units |-> Num(2)]) >>)])

MissingKeyPayloads ==
  UNION { { WithBlock(k, b) : b \in Prune(FullPayload.m[k]) } : k \in DOMAIN FullPayload.m }
  \cup { Restrict(FullPayload, K) : K \in SUBSET DOMAIN FullPayload.m }
  \cup Prune(SlimPayload)
  \cup { WithBlock("positions", List(ps)) :
           ps \in { << >>, << Position(1, 3, 2), Map([units |-> Num(1)]) >> } }
  \cup { WithBlock("balances", EmptyList) }

MalformedPayloads == Corrupt(FullPayload)

AdapterInputs == MissingKeyPayloads \cup MalformedPayloads \cup NonMappings \cup { EmptyList }

(* --------------------------- specifications ---------------------------- *)

Init ==
  /\ brokerage_accounts = << >>
  /\ holdings = << >>
  /\ call = NoCall
  /\ ret = NoValue
  /\ input = NoValue
  /\ lastPulled = << >>
  /\ seen = << >>

\* The registry: any operation, for any name, in any order.
Next ==
  \/ \E response \in AccountListResponses : PullConnectedBrokerageAccounts(response)
  \/ \E account_name \in CallNames, response \in HoldingsResponses, now \in Times :
       PullAccountHoldings(account_name, response, now)
  \/ \E account_name \in CallNames : SmallHoldingsSnapshot(account_name)
  \/ \E account_name \in CallNames : FormatPortfolioSummary(account_name)
  \/ \E account_name \in CallNames : FormatSnapshotForLLM(account_name)

Spec == Init /\ [][Next]_vars

\* One run of the scripts (emailTLDR.py, testEmail.py): the accounts are
\* pulled, then the holdings of one account, then its renderings are asked for.
ScriptAccount == "A"

NextRender ==
  \/ /\ call = NoCall
     /\ \E response \in AccountListResponses : PullConnectedBrokerageAccounts(response)
  \/ /\ call.op = "pull_connected_brokerage_accounts"
     /\ \E response \in RenderPayloads \cup {Raise}, now \in Times :
          PullAccountHoldings(ScriptAccount, response, now)
  \/ /\ call.op \notin {"init", "pull_connected_brokerage_accounts"}
     /\ \/ SmallHoldingsSnapshot(ScriptAccount)
        \/ FormatPortfolioSummary(ScriptAccount)
        \/ FormatSnapshotForLLM(ScriptAccount)

SpecRender == Init /\ [][NextRender]_vars

\* The Raw Response Adapter alone, applied to one payload.
InitAdapter ==
  /\ brokerage_accounts = << >>
  /\ holdings = << >>
  /\ call = NoCall
  /\ ret = NoValue
  /\ input \in AdapterInputs
  /\ lastPulled = << >>
  /\ seen = << >>

NextAdapter == \E now \in Times : CreateHoldingsSnapshot(now)

SpecAdapter == InitAdapter /\ [][NextAdapter]_vars

(* ----------------------------- properties ------------------------------ *)

\* The value at a path of keys ("[0]": the first element of a list), or
\* Absent when a key of the path is missing.
Absent == [t |-> "absent"]

RECURSIVE At(_, _)
At(v, path) ==
  IF Len(path) = 0 THEN v
  ELSE IF v.t = "map" /\ Head(path) \in DOMAIN v.m THEN At(v.m[Head(path)], Tail(path))
  ELSE IF v.t = "list" /\ Head(path) = "[0]" /\ Len(v.l) > 0 THEN At(v.l[1], Tail(path))
  ELSE Absent

\* v has the shape of the template, up to missing keys: mappings where the
\* template has mappings, lists where it has lists, and so on.
RECURSIVE WellShaped(_, _)
WellShaped(v, template) ==
  CASE template.t = "map" ->
         /\ v.t = "map"
         /\ DOMAIN v.m \subseteq DOMAIN template.m
         /\ \A k \in DOMAIN v.m : WellShaped(v.m[k], template.m[k])
    [] template.t = "list" ->
         /\ v.t = "list"
         /\ \A i \in 1..Len(v.l) : WellShaped(v.l[i], template.l[1])
    [] OTHER -> v.t = template.t

OnlyMissingKeys(payload) == WellShaped(payload, FullPayload)

Leaf(out, src) == [out |-> out, src |-> src]

\* Where each leaf of the Full Snapshot comes from in the payload.
ScalarLeaves ==
  { Leaf(<<"metadata", "account_id">>, <<"account", "id">>),
    Leaf(<<"metadata", "account_name">>, <<"account", "name">>),
    Leaf(<<"metadata", "institution_name">>, <<"account", "institution_name">>),
    Leaf(<<"balances", "total_balance">>, <<"account", "balance", "total", "amount">>),
    Leaf(<<"balances", "total_balance_currency">>,
         <<"account", "balance", "total", "currency">>),
    Leaf(<<"balances", "cash_available">>, <<"balances", "[0]", "cash">>),
    Leaf(<<"balances", "buying_power">>, <<"balances", "[0]", "buying_power">>),
    Leaf(<<"balances", "total_portfolio_value">>, <<"total_value", "value">>),
    Leaf(<<"balances", "total_portfolio_currency">>, <<"total_value", "currency">>) }

PositionLeaves ==
  { Leaf(<<"symbol">>, <<"symbol", "symbol", "symbol">>),
    Leaf(<<"description">>, <<"symbol", "description">>),
    Leaf(<<"units">>, <<"units">>),
    Leaf(<<"fractional_units">>, <<"fractional_units">>),
    Leaf(<<"current_price">>, <<"price">>),
    Leaf(<<"average_purchase_price">>, <<"average_purchase_price">>),
    Leaf(<<"open_pnl">>, <<"open_pnl">>),
    Leaf(<<"exchange">>, <<"symbol", "symbol", "exchange", "code">>),
    Leaf(<<"asset_type">>, <<"symbol", "symbol", "type", "description">>),
    Leaf(<<"currency">>, <<"symbol", "symbol", "currency", "code">>) }

OptionLeaves ==
  { Leaf(<<"underlying_symbol">>,
         <<"symbol", "option_symbol", "underlying_symbol", "symbol">>),
    Leaf(<<"option_ticker">>, <<"symbol", "option_symbol", "ticker">>),
    Leaf(<<"option_type">>, <<"symbol", "option_symbol", "option_type">>),
    Leaf(<<"strike_price">>, <<"symbol", "option_symbol", "strike_price">>),
    Leaf(<<"expiration_date">>, <<"symbol", "option_symbol", "expiration_date">>),
    Leaf(<<"units">>, <<"units">>),
    Leaf(<<"current_price">>, <<"price">>),
    Leaf(<<"average_purchase_price">>, <<"average_purchase_price">>),
    Leaf(<<"currency">>, <<"currency", "code">>) }

OrderLeaves ==
  { Leaf(<<"symbol">>, <<"universal_symbol", "symbol">>) }
  \cup { Leaf(<<k>>, <<k>>) :
           k \in { "brokerage_order_id", "action", "total_quantity", "filled_quantity",
                   "execution_price", "order_type", "limit_price", "stop_price",
                   "status", "time_placed", "time_executed", "time_updated",
                   "expiry_date" } }

\* The leaf a source value must give: null when the source key is absent.
Expected(source) == IF source = Absent THEN Null ELSE source

LeavesFollow(snapshot, payload, leaves) ==
  \A leaf \in leaves : At(snapshot, leaf.out) = Expected(At(payload, leaf.src))

ListFollows(snapshot, payload, key, leaves) ==
  LET src == At(payload, <<key>>)
      xs == IF src = Absent THEN << >> ELSE src.l
      out == At(snapshot, <<key>>)
  IN /\ out.t = "list"
     /\ Len(out.l) = Len(xs)
     /\ \A i \in 1..Len(xs) : LeavesFollow(out.l[i], xs[i], leaves)

StructurallyComplete(snapshot, payload) ==
  /\ snapshot.t = "map"
  /\ DOMAIN snapshot.m = {"metadata", "balances", "positions", "option_positions", "orders"}
  /\ At(snapshot, <<"metadata", "pulled_at">>).t = "iso"
  /\ LeavesFollow(snapshot, payload, ScalarLeaves)
  /\ ListFollows(snapshot, payload, "positions", PositionLeaves)
  /\ ListFollows(snapshot, payload, "option_positions", OptionLeaves)
  /\ ListFollows(snapshot, payload, "orders", OrderLeaves)

AdapterRan == call.op = "_create_holdings_snapshot"

\* C1: for a payload that is a mapping with any keys missing at any depth,
\* _create_holdings_snapshot does not raise and returns a snapshot with the
\* keys metadata, balances, positions, option_positions and orders in which
\* every leaf whose source key is absent is null.
C1_MissingKeysGiveNulls ==
  (AdapterRan /\ OnlyMissingKeys(input)) => StructurallyComplete(ret, input)

\* The adapter ran on a payload whose account has a balance with no total,
\* and on one with no symbol in its position: the leaves are null.
C1_Witness ==
  /\ AdapterRan
  /\ OnlyMissingKeys(input)
  /\ At(input, <<"account", "balance">>) = EmptyMap
  /\ At(input, <<"positions", "[0]">>) # Absent
  /\ At(ret, <<"balances", "total_balance">>) = Null
  /\ At(ret, <<"metadata", "account_name">>) = Str("A")

\* C2: the adapter fails only when the top-level input is not a mapping: on
\* every mapping, however malformed its nested values, it returns a snapshot.
C2_FailsOnlyOnNonMapping ==
  (AdapterRan /\ input.t = "map") => ret.t = "map"

PulledHoldings == call.op = "pull_account_holdings"

PulledAccounts == call.op = "pull_connected_brokerage_accounts"

\* C3: holdings holds one Full Snapshot per pulled name, the one the most
\* recent successful pull for that name produced, and nothing for other names.
C3_LatestSnapshotOnly ==
  /\ DOMAIN holdings = DOMAIN lastPulled
  /\ \A n \in DOMAIN holdings :
       /\ holdings[n] = lastPulled[n].snapshot
       /\ holdings[n].t = "map"
       /\ "metadata" \in DOMAIN holdings[n].m

\* A second successful pull for a name replaced a different snapshot.
C3_Witness ==
  \E n \in DOMAIN lastPulled :
    /\ lastPulled[n].replaced
    /\ n \in DOMAIN holdings
    /\ holdings[n] = lastPulled[n].snapshot

\* The accounts of a response that carry both a name and an id.
WellFormedAccounts(response) ==
  /\ response.t = "list"
  /\ \A i \in 1..Len(response.l) :
       At(response.l[i], <<"name">>).t = "str" /\ At(response.l[i], <<"id">>) # Absent

\* C4: the two pull operations return a flag and never raise: False when the
\* aggregator call raised, the response is malformed or the account name is
\* not registered, and True only when the mapping / the snapshot was stored.
C4_PullsReturnFlag ==
  /\ (PulledHoldings \/ PulledAccounts) => ret \in {Bool(TRUE), Bool(FALSE)}
  /\ PulledHoldings =>
       /\ (call.name \notin DOMAIN brokerage_accounts \/ input = Raise \/ input.t # "map")
            => ret = Bool(FALSE)
       /\ ret = Bool(TRUE) =>
            /\ call.name \in DOMAIN holdings
            /\ \E now \in Times :
                 holdings[call.name] = _create_holdings_snapshot(input, now)
  /\ PulledAccounts =>
       /\ ~WellFormedAccounts(input) => ret = Bool(FALSE)
       /\ ret = Bool(TRUE) =>
            \A i \in 1..Len(input.l) :
              /\ input.l[i].m.name.s \in DOMAIN brokerage_accounts
              /\ \E j \in 1..Len(input.l) :
                   /\ input.l[j].m.name = input.l[i].m.name
                   /\ brokerage_accounts[input.l[i].m.name.s] = input.l[j].m.id

\* Holdings were pulled before any account was registered: False came back.
C4_Witness ==
  /\ PulledHoldings
  /\ brokerage_accounts = << >>
  /\ ret = Bool(FALSE)

NoDataMessage(account_name) ==
  Text(<< Line("No holdings data available for account: ", "", Str(account_name), "") >>)

\* C7: for a name with no stored snapshot, small_holdings_snapshot returns
\* the empty mapping and format_portfolio_summary returns exactly the line
\* "No holdings data available for account: {name}".
C7_NoSnapshotNoData ==
  call.name \notin DOMAIN holdings =>
    /\ call.op = "small_holdings_snapshot" => ret = EmptyMap
    /\ call.op = "format_portfolio_summary" => ret = NoDataMessage(call.name)

\* A report was asked for a registered account whose pull never succeeded,
\* while another account has a snapshot.
C7_Witness ==
  /\ call.op = "format_portfolio_summary"
  /\ call.name \in DOMAIN brokerage_accounts
  /\ call.name \notin DOMAIN holdings
  /\ holdings # << >>
  /\ ret = NoDataMessage(call.name)

\* C10: small_holdings_snapshot and format_portfolio_summary leave
\* brokerage_accounts and holdings as they were, and a second
\* small_holdings_snapshot for a name, with no pull since the first, returns
\* what the first returned.
C10_RenderingIsPure ==
  [][ call'.op \in {"small_holdings_snapshot", "format_portfolio_summary"} =>
        /\ holdings' = holdings
        /\ brokerage_accounts' = brokerage_accounts
        /\ (call'.op = "small_holdings_snapshot" /\ call'.name \in DOMAIN seen)
             => ret' = seen[call'.name] ]_vars

\* small_holdings_snapshot was called again for a name with a stored snapshot.
C10_Witness ==
  /\ call.op = "small_holdings_snapshot"
  /\ call.again
  /\ call.name \in DOMAIN holdings
  /\ ret = seen[call.name]
  /\ Len(At(ret, <<"positions">>).l) > 0

Reported == call.op = "format_portfolio_summary" /\ call.name \in DOMAIN holdings

\* The balances and the positions of the stored Full Snapshot of a name.
StoredBalances(n) == At(holdings[n], <<"balances">>)

StoredPositions(n) == At(holdings[n], <<"positions">>).l

\* C5: for an account whose stored snapshot has a null total_balance,
\* cash_available or buying_power, or no positions, format_portfolio_summary
\* returns a rendering and does not raise.
C5_MissingDataRenders ==
  ( /\ Reported
    /\ \/ \E k \in {"total_balance", "cash_available", "buying_power"} :
            StoredBalances(call.name).m[k] = Null
       \/ Len(StoredPositions(call.name)) = 0 )
  => ret.t = "text"

\* The sums over the stored positions: units x current_price
\* and open_pnl (numbers throughout, or the report was not rendered).
RECURSIVE SumOf(_, _)
SumOf(positions, field) ==
  IF Len(positions) = 0 THEN 0
  ELSE SumOf(Tail(positions), field)
       + (IF field = "value"
          THEN Head(positions).m.units.n * Head(positions).m.current_price.n
          ELSE Head(positions).m.open_pnl.n)

\* The lines of a rendering that start with one of the labels.
LinesOf(text, labels) ==
  LET Has(line) == line.label \in labels IN SelectSeq(text.lines, Has)

PercentLines(text) == LinesOf(text, {"P&L %: ", "  P&L %: "})

\* C6: the report of an account with positions has no "P&L %" line when the
\* total position value is 0, and when it is greater than 0 it has one, with
\* the value total_pnl / total_position_value * 100 to two decimals, whatever
\* the balances are.
C6_PercentageByPositionValue ==
  (Reported /\ ret.t = "text" /\ Len(StoredPositions(call.name)) > 0) =>
    LET tpv == SumOf(StoredPositions(call.name), "value")
        pnl == SumOf(StoredPositions(call.name), "open_pnl")
    IN /\ tpv = 0 => Len(PercentLines(ret)) = 0
       /\ tpv > 0 =>
            /\ Len(PercentLines(ret)) = 1
            /\ PercentLines(ret)[1].val =
                 [t |-> "fmt", spec |-> ".2f", k |-> RoundDiv(pnl * 10000, tpv)]

\* The label of a line without its indentation.
Unindented(label) ==
  CASE label = "  Position Value: $" -> "Position Value: $"
    [] label = "    Position Value: $" -> "Position Value: $"
    [] label = "  Total Positions Value: $" -> "Total Positions Value: $"
    [] label = "  Total P&L: " -> "Total P&L: "
    [] label = "  P&L %: " -> "P&L %: "
    [] OTHER -> label

NumericLabels ==
  {"Position Value: $", "Total Positions Value: $", "Total P&L: ", "P&L %: "}

\* The numeric content of a rendering: its position values, totals and
\* percentage, in order, without indentation and markers.
NumericContent(text) ==
  IF text.t # "text" THEN << >>
  ELSE LET Has(line) == Unindented(line.label) \in NumericLabels
           kept == SelectSeq(text.lines, Has)
       IN [i \in 1..Len(kept) |->
             [label |-> Unindented(kept[i].label), sign |-> kept[i].sign,
              val |-> kept[i].val]]

\* C8: for every stored snapshot the Report variant and the Prompt variant
\* carry the same position values, Total Positions Value, Total P&L and
\* "P&L %" line.
C8_VariantsAgree ==
  \A n \in DOMAIN holdings :
    NumericContent(format_portfolio_summary(n))
      = NumericContent(_format_snapshot_for_llm(small_holdings_snapshot(n)))

SmallPositionFields == {"symbol", "units", "current_price", "open_pnl"}

SmallBalanceFields ==
  {"total_balance", "cash_available", "buying_power", "total_portfolio_value"}

\* C9: the Small Snapshot of a stored Full Snapshot has the positions of the
\* Full Snapshot, in order, each with exactly symbol, units, current_price
\* and open_pnl and the Full Snapshot's values (null stays null), balances
\* with exactly the four balance fields, and no option positions or orders.
C9_SmallSnapshotFollowsFull ==
  (call.op = "small_holdings_snapshot" /\ call.name \in DOMAIN holdings) =>
    LET full == holdings[call.name] IN
    /\ ret.t = "map"
    /\ DOMAIN ret.m = {"snapshot_date", "account", "balances", "positions"}
    /\ ret.m.snapshot_date = At(full, <<"metadata", "pulled_at">>)
    /\ ret.m.account = At(full, <<"metadata", "account_name">>)
    /\ DOMAIN ret.m.balances.m = SmallBalanceFields
    /\ \A k \in SmallBalanceFields : ret.m.balances.m[k] = At(full, <<"balances", k>>)
    /\ Len(ret.m.positions.l) = Len(StoredPositions(call.name))
    /\ \A i \in 1..Len(ret.m.positions.l) :
         /\ DOMAIN ret.m.positions.l[i].m = SmallPositionFields
         /\ \A k \in SmallPositionFields :
              ret.m.positions.l[i].m[k] = StoredPositions(call.name)[i].m[k]

\* The Small Snapshot of a snapshot with two different positions, one with
\* null units, and with option positions and orders.
C9_Witness ==
  /\ call.op = "small_holdings_snapshot"
  /\ call.name \in DOMAIN holdings
  /\ Len(At(holdings[call.name], <<"option_positions">>).l) > 0
  /\ Len(At(holdings[call.name], <<"orders">>).l) > 0
  /\ Len(ret.m.positions.l) = 2
  /\ ret.m.positions.l[1].m.units = Null
  /\ ret.m.positions.l[2].m.units # Null
  /\ ret.m.balances.m.total_portfolio_value = Null

\* The aggregator's response of this step is one the adapter accepts.
Retrievable(response) ==
  \A now \in Times : _create_holdings_snapshot(response, now).t # "raise"

\* C11: a pull_account_holdings that returns False leaves holdings (the
\* snapshot stored earlier for the name included) and brokerage_accounts as
\* they were; one that returns True leaves brokerage_accounts as it was and
\* changes holdings at the pulled name only; and directly after a failed pull
\* for one name, a pull for another, registered name whose response the
\* adapter accepts returns True.
C11_FailuresAreLocal ==
  [][ call'.op = "pull_account_holdings" =>
        /\ brokerage_accounts' = brokerage_accounts
        /\ ret' \in {Bool(TRUE), Bool(FALSE)}
        /\ ret' = Bool(FALSE) => holdings' = holdings
        /\ ret' = Bool(TRUE) =>
             /\ DOMAIN holdings' = DOMAIN holdings \cup {call'.name}
             /\ \A n \in DOMAIN holdings \ {call'.name} : holdings'[n] = holdings[n]
        /\ ( /\ PulledHoldings
             /\ ret = Bool(FALSE)
             /\ call'.name # call.name
             /\ call'.name \in DOMAIN brokerage_accounts
             /\ Retrievable(input') )
             => ret' = Bool(TRUE) ]_vars

\* A pull for a registered name failed on the aggregator's side while a
\* snapshot of an earlier pull for that name, and one for another name, are
\* stored: both are still there.
C11_Witness ==
  /\ PulledHoldings
  /\ ret = Bool(FALSE)
  /\ input = Raise
  /\ call.name \in DOMAIN brokerage_accounts
  /\ call.name \in DOMAIN holdings
  /\ holdings[call.name] = lastPulled[call.name].snapshot
  /\ \E other \in DOMAIN holdings : other # call.name

====
